---- MODULE Spec2Model ----
(***************************************************************************)
(* Model of invisibility_cloak.py: the per-frame pipeline of               *)
(* InvisibilityCloak (colour mask, mask refinement, compositing),          *)
(* background capture, the HSV tuner, recording, and the session loop      *)
(* run() with its clean-up.                                                *)
(*                                                                         *)
(* Frames are H x W grids of BGR pixels, masks are H x W grids of 0 / 255. *)
(* OpenCV calls are modelled by what they compute on 8-bit images.         *)
(***************************************************************************)
EXTENDS Integers, Sequences, FiniteSets, TLC

\* ------------------------------------------------------------------ bounds
\* Frame width and height (the program's frames are 1280 x 720).
W == 7
H == 2
\* Sample frames averaged by capture_background (num_frames, 30 in the code).
NumFrames == 2
\* Frames read and discarded in the countdown phase (60 in the code).
CountdownFrames == 1
\* Contour-area threshold of refine_mask (500 in the code), scaled to the frame.
MinContourArea == 4

\* Python's None, for values that are otherwise arrays, tuples or objects.
None == <<>>

Pos == (1..H) \X (1..W)

\* An image as a fully evaluated array: comparing the function with itself
\* makes TLC compute every element once, instead of on every later lookup.
Array(f) == IF f = f THEN f ELSE f

Max2(a, b) == IF a >= b THEN a ELSE b
Min2(a, b) == IF a <= b THEN a ELSE b

\* cvRound(a / b) for a >= 0, b > 0
RoundDiv(a, b) == (2 * a + b) \div (2 * b)

\* ------------------------------------------------------------ colour model
\* 8-bit BGR pixels used by the synthetic camera frames.
Grey    == <<128, 128, 128>>
Red     == <<0, 0, 255>>
Crimson == <<40, 0, 255>>
Green   == <<0, 255, 0>>

\* COLOR_PRESETS: name, list of (lower, upper) HSV boxes.
COLOR_PRESETS ==
  << [name |-> "red",
      ranges |-> << <<(<<0, 120, 70>>), (<<10, 255, 255>>)>>,
                    <<(<<170, 120, 70>>), (<<180, 255, 255>>)>> >>],
     [name |-> "blue",
      ranges |-> << <<(<<100, 150, 50>>), (<<130, 255, 255>>)>> >>],
     [name |-> "green",
      ranges |-> << <<(<<40, 40, 40>>), (<<80, 255, 255>>)>> >>],
     [name |-> "yellow",
      ranges |-> << <<(<<20, 100, 100>>), (<<30, 255, 255>>)>> >>] >>

\* self.color_names = list(COLOR_PRESETS.keys()); indexes are 0-based in the code.
color_names == [i \in 1..Len(COLOR_PRESETS) |-> COLOR_PRESETS[i].name]

\* cv2.cvtColor(frame, cv2.COLOR_BGR2HSV) on one 8-bit pixel: the fixed-point
\* tables hdiv_table (180 degrees of hue) and sdiv_table, shift 12.
hdiv_table(i) == IF i = 0 THEN 0 ELSE RoundDiv(180 * 4096, 6 * i)
sdiv_table(i) == IF i = 0 THEN 0 ELSE RoundDiv(255 * 4096, i)

BGR2HSV(p) ==
  LET b == p[1]
      g == p[2]
      r == p[3]
      v == Max2(b, Max2(g, r))
      vmin == Min2(b, Min2(g, r))
      diff == v - vmin
      s == (diff * sdiv_table(v) + 2048) \div 4096
      h0 == IF v = r THEN g - b
            ELSE IF v = g THEN b - r + 2 * diff
            ELSE r - g + 4 * diff
      h1 == (h0 * hdiv_table(diff) + 2048) \div 4096
      h == IF h1 < 0 THEN h1 + 180 ELSE h1
  IN <<h, s, v>>

cvtColor(img) == Array([p \in Pos |-> BGR2HSV(img[p])])

\* cv2.flip(frame, 1): mirror around the vertical axis.
flip(img) == Array([p \in Pos |-> img[<<p[1], W + 1 - p[2]>>]])

\* cv2.inRange(hsv, lower, upper): 255 where every channel is inside its
\* inclusive bounds, 0 elsewhere.
inRange(hsv, lower, upper) ==
  Array([p \in Pos |->
     IF \A c \in 1..3 : lower[c] <= hsv[p][c] /\ hsv[p][c] <= upper[c]
     THEN 255 ELSE 0])

\* Bitwise operations on 8-bit values.
RECURSIVE BitOr(_, _, _)
BitOr(a, b, n) ==
  IF n = 0 THEN 0
  ELSE Max2(a % 2, b % 2) + 2 * BitOr(a \div 2, b \div 2, n - 1)

bitwise_or(m1, m2) == Array([p \in Pos |-> BitOr(m1[p], m2[p], 8)])
bitwise_not(m) == Array([p \in Pos |-> 255 - m[p]])

\* cv2.bitwise_and(src, src, mask=mask): src & src where mask is non-zero,
\* 0 elsewhere.
bitwise_and_masked(src, m) ==
  Array([p \in Pos |-> IF m[p] # 0 THEN src[p] ELSE <<0, 0, 0>>])

\* cv2.add: per-channel saturating sum.
add(a, b) ==
  Array([p \in Pos |-> [c \in 1..3 |-> Min2(a[p][c] + b[p][c], 255)]])

\* --------------------------------------------------------------- environment
\* Frames the camera can deliver: the empty scene, and the scene with a
\* red / crimson cloth on the left, green on the right.
EmptyScene == [p \in Pos |-> Grey]
CloakScene ==
  [p \in Pos |->
     IF p[2] <= 3 THEN Red
     ELSE IF p[2] = 4 THEN Crimson
     ELSE IF p[2] >= W - 1 THEN Green
     ELSE Grey]
CameraFrames == {EmptyScene, CloakScene}

\* self.cap.read() returning ret = False.
NoFrame == <<>>

\* Positions the operator can leave the six trackbars in: the defaults of
\* _create_window, and a green box.
TrackbarDefault == <<(<<0, 120, 70>>), (<<10, 255, 255>>)>>
TrackbarGreen == <<(<<40, 40, 40>>), (<<80, 255, 255>>)>>
TrackbarSettings == {TrackbarDefault, TrackbarGreen}
\* What cv2.getTrackbarPos returns for a window that no longer exists, on the
\* builds where it returns instead of raising cv2.error.
TrackbarMissing == <<(<<-1, -1, -1>>), (<<-1, -1, -1>>)>>

\* ------------------------------------------------------------- refine_mask
\* The 3 x 3 neighbourhood of self.morph_kernel, clipped to the image: pixels
\* outside the image never constrain an erosion or a dilation.
Neighbours(p) ==
  {q \in Pos : q[1] - p[1] \in -1..1 /\ q[2] - p[2] \in -1..1}

SetMin(S) == CHOOSE x \in S : \A y \in S : x <= y
SetMax(S) == CHOOSE x \in S : \A y \in S : x >= y

erode1(m) == Array([p \in Pos |-> SetMin({m[q] : q \in Neighbours(p)})])
dilate1(m) == Array([p \in Pos |-> SetMax({m[q] : q \in Neighbours(p)})])

RECURSIVE erode(_, _)
erode(m, iterations) ==
  IF iterations = 0 THEN m ELSE erode(erode1(m), iterations - 1)

RECURSIVE dilate(_, _)
dilate(m, iterations) ==
  IF iterations = 0 THEN m ELSE dilate(dilate1(m), iterations - 1)

\* cv2.morphologyEx(mask, MORPH_OPEN, kernel, iterations=n): n erosions, then
\* n dilations.
morphologyEx_open(m, iterations) == dilate(erode(m, iterations), iterations)

\* The 8-connected region of non-zero pixels that contains p.
RECURSIVE Grow(_, _)
Grow(m, S) ==
  LET T == S \cup {q \in Pos : m[q] # 0 /\ \E s \in S : q \in Neighbours(s)}
  IN IF T = S THEN S ELSE Grow(m, T)

Component(m, p) == Grow(m, {p})

\* cv2.findContours(mask, RETR_EXTERNAL, ...): one outer contour per region.
findContours(m) == {Component(m, p) : p \in {q \in Pos : m[q] # 0}}

\* cv2.contourArea of a region's outer contour: the polygon through the
\* centres of its border pixels. The regions that leave the opening of a frame
\* at most three rows high are full-height rectangles, whose polygon is the
\* bounding box: (columns - 1) * (rows - 1).
contourArea(C) ==
  LET ys == {q[1] : q \in C}
      xs == {q[2] : q \in C}
  IN (SetMax(xs) - SetMin(xs)) * (SetMax(ys) - SetMin(ys))

\* cv2.fillPoly(mask, [contour], 0) for every contour below the area threshold.
refine_mask(m) ==
  LET opened == morphologyEx_open(m, 2)
      grown == dilate(opened, 1)
      small == UNION {C \in findContours(grown) : contourArea(C) < MinContourArea}
  IN Array([p \in Pos |-> IF p \in small THEN 0 ELSE grown[p]])

\* ------------------------------------------------------- create_color_mask
\* HSVTuner.get_hsv_range: None unless the tuner is active and initialized,
\* else (lower, upper) as cv2.getTrackbarPos reports the six trackbars (tb).
get_hsv_range(active, initialized, tb) ==
  IF ~active \/ ~initialized THEN None ELSE tb

RECURSIVE OrMasks(_, _)
OrMasks(final_mask, masks) ==
  IF masks = <<>> THEN final_mask
  ELSE OrMasks(bitwise_or(final_mask, Head(masks)), Tail(masks))

\* lines 234-245 for one list of ranges: one inRange mask per range, OR-ed
\* together starting from masks[0], which raises IndexError on an empty list.
mask_of_ranges(hsv, rngs) ==
  LET masks == [i \in 1..Len(rngs) |-> inRange(hsv, rngs[i][1], rngs[i][2])]
  IN IF Len(rngs) = 0
     THEN [final_mask |-> None, outcome |-> "IndexError"]
     ELSE [final_mask |-> OrMasks(masks[1], Tail(masks)),
           outcome |-> "returned"]

\* The preset branch: the ranges of the current preset.
PresetMask(hsv, index) ==
  mask_of_ranges(hsv, COLOR_PRESETS[index + 1].ranges).final_mask

\* create_color_mask with the tuner branch lost: the presets decide even
\* while the tuner is active.
create_color_mask_presets_only(hsv, active, hsv_rng, index) ==
  PresetMask(hsv, index)

\* create_color_mask: the tuner's range when the tuner is active and yields
\* one, else the ranges of the current preset.
create_color_mask(hsv, active, hsv_rng, index) ==
  IF active /\ hsv_rng # None
  THEN inRange(hsv, hsv_rng[1], hsv_rng[2])
  ELSE PresetMask(hsv, index)

\* ------------------------------------------------ apply_invisibility_effect
\* Composite with line 427 taking the whole frame instead of its unmasked
\* part: plate and frame add up inside the mask.
Composite_blend(frm, bg, m) ==
  add(bitwise_and_masked(bg, m), frm)

\* Lines 420-430: inverse mask, the two masked parts, their saturating sum.
Composite(frm, bg, m) ==
  LET inv_mask == bitwise_not(m)
      background_part == bitwise_and_masked(bg, m)
      frame_part == bitwise_and_masked(frm, inv_mask)
  IN add(background_part, frame_part)

\* Lines 414-418 for one mirrored frame and one tuner / preset setting: the
\* mask create_color_mask returns and the mask refine_mask makes of it.
Masks(frm, active, hsv_rng, index) ==
  LET hsv == cvtColor(frm)
      raw == create_color_mask(hsv, active, hsv_rng, index)
  IN [raw |-> raw, refined |-> refine_mask(raw)]

\* Masks, evaluated once for every frame and setting the session can meet.
MaskTable ==
  Array([k \in {flip(f) : f \in CameraFrames} \X BOOLEAN
               \X (TrackbarSettings \cup {TrackbarMissing, None})
               \X (0..(Len(COLOR_PRESETS) - 1)) |->
           Masks(k[1], k[2], k[3], k[4])])

\* apply_invisibility_effect without the guard of lines 410-411: a missing
\* background is composited as a black plate.
apply_invisibility_effect_unguarded(frm, bg, active, hsv_rng, index) ==
  LET m == MaskTable[<<frm, active, hsv_rng, index>>]
      plate == IF bg = None THEN [p \in Pos |-> <<0, 0, 0>>] ELSE bg
  IN [result |-> Composite(frm, plate, m.refined),
      raw |-> IF bg = None THEN None ELSE m.raw,
      refined |-> IF bg = None THEN None ELSE m.refined]

\* The whole effect: the frame itself when there is no background, else the
\* composite under the refined colour mask. raw and refined keep the masks.
apply_invisibility_effect(frm, bg, active, hsv_rng, index) ==
  IF bg = None
  THEN [result |-> frm, raw |-> None, refined |-> None]
  ELSE LET m == MaskTable[<<frm, active, hsv_rng, index>>]
       IN [result |-> Composite(frm, bg, m.refined),
           raw |-> m.raw, refined |-> m.refined]

\* ------------------------------------------------------ capture_background
RECURSIVE SumSeq(_)
SumSeq(s) == IF s = <<>> THEN 0 ELSE Head(s) + SumSeq(Tail(s))

\* np.mean(frames, axis=0).astype(np.uint8): the per-pixel, per-channel mean
\* of the float32 samples, truncated.
mean(frms) ==
  Array([p \in Pos |-> [c \in 1..3 |->
     SumSeq([i \in 1..Len(frms) |-> frms[i][p][c]]) \div Len(frms)]])

\* cv2.borderInterpolate(p, len, BORDER_REFLECT_101)
RECURSIVE borderInterpolate(_, _)
borderInterpolate(p, len) ==
  IF len = 1 THEN 1
  ELSE IF p < 1 THEN borderInterpolate(2 - p, len)
  ELSE IF p > len THEN borderInterpolate(2 * len - p, len)
  ELSE p

\* The 5-tap kernel of a (5, 5) GaussianBlur with sigma 0: (1 4 6 4 1) / 16.
GaussTap(d) == IF d = 0 THEN 6 ELSE IF d \in {-1, 1} THEN 4 ELSE 1

\* cv2.GaussianBlur(img, (5, 5), 0) on an 8-bit image: the separable kernel
\* in fixed point, rounded once at the end.
GaussianBlur(img) ==
  Array([p \in Pos |-> [c \in 1..3 |->
     LET acc == SumSeq([k \in 1..25 |->
                  LET dy == ((k - 1) \div 5) - 2
                      dx == ((k - 1) % 5) - 2
                      q == <<borderInterpolate(p[1] + dy, H),
                             borderInterpolate(p[2] + dx, W)>>
                  IN GaussTap(dy) * GaussTap(dx) * img[q][c]])
     IN (acc + 128) \div 256]])

\* The frames of the sample reads that succeeded, mirrored, in order.
RECURSIVE Collected(_)
Collected(rds) ==
  IF rds = <<>> THEN <<>>
  ELSE IF Head(rds) = NoFrame THEN Collected(Tail(rds))
  ELSE <<flip(Head(rds))>> \o Collected(Tail(rds))

\* Lines 315-316, evaluated once for every list of samples a capture can
\* collect: the blurred mean.
PlateTable ==
  Array([smp \in {Collected(rds) :
                    rds \in [1..NumFrames -> CameraFrames \cup {NoFrame}]} |->
           IF smp = <<>> THEN None ELSE GaussianBlur(mean(smp))])

\* capture_plate assigning self.background before the samples are checked: a
\* capture without samples clears the plate.
capture_plate_clears(bg, frms) ==
  IF frms # <<>> THEN PlateTable[frms] ELSE None

\* capture_plate that captures only while no plate is held.
capture_plate_keeps(bg, frms) ==
  IF frms # <<>> /\ bg = None THEN PlateTable[frms] ELSE bg

\* lines 313-321: the plate capture_background leaves in self.background,
\* given the plate held before the call and the samples it collected.
capture_plate(bg, frms) ==
  IF frms # <<>> THEN PlateTable[frms] ELSE bg

\* ----------------------------------------------------------- recording sink
\* A cv2.VideoWriter object whose isOpened() is true, and one after release().
Opened == <<"opened">>
Released == <<"released">>

\* --------------------------------------------------------------------- state
VARIABLES
  pc,                   \* where run() is: "read", "key", "finally", "returned"
  background,           \* self.background
  current_color_index,  \* self.current_color_index
  is_active,            \* self.hsv_tuner.is_active
  is_initialized,       \* self.hsv_tuner.is_initialized
  window,               \* the "HSV Tuner" window exists
  is_recording,         \* self.is_recording
  video_writer,         \* self.video_writer: None, or a writer and its state
  openSinks,            \* recording sinks opened and not released
  capOpen,              \* self.cap has not been released
  recBefore,            \* is_recording before each of the last two
                        \* toggle_recording calls, oldest first
  \* run(): the locals of the iteration, from line 448 up to cv2.waitKey
  frame,                \* the mirrored frame
  processed_frame,      \* what apply_invisibility_effect returned
  hsv_range,            \* create_color_mask: what get_hsv_range returned
  raw_mask,             \* apply_invisibility_effect: mask before refine_mask
  mask,                 \* apply_invisibility_effect: mask after refine_mask
  shown,                \* the frame given to cv2.imshow at line 466, without
                        \* the text draw_hud overlays on it at line 463
  written,              \* the frame given to video_writer.write, or None
  \* run(): the iteration as a whole
  reads,                \* frames read from self.cap in this iteration
  emits,                \* frames given to cv2.imshow in this iteration
  lastCmd,              \* the key handled in this iteration, "none" until
                        \* cv2.waitKey has returned
  frames,               \* capture_background: the samples collected
  captureOk,            \* capture_background: its return value
  saveOk,               \* save_settings: its return value
  recResult,            \* toggle_recording: what it reported (lines 339-359)
  \* create_color_mask called on its own, lines 234-245
  seg_hsv,              \* hsv_frame
  seg_ranges,           \* color_info["ranges"]
  seg_mask,             \* final_mask as returned, None if nothing was returned
  seg_outcome           \* "not called", "returned" or "IndexError"

tunerVars == <<is_active, is_initialized, window>>
recVars == <<is_recording, video_writer, openSinks, recBefore>>
tickVars == <<frame, processed_frame, hsv_range, raw_mask, mask, shown, written>>
cmdVars == <<lastCmd, frames, captureOk, saveOk, recResult>>
segVars == <<seg_hsv, seg_ranges, seg_mask, seg_outcome>>
vars == <<pc, background, current_color_index, tunerVars, recVars, capOpen,
          tickVars, reads, emits, cmdVars, segVars>>

\* InvisibilityCloak.__init__ and HSVTuner.__init__ with the camera opened;
\* main() then sets the index of the --color preset.
Init ==
  /\ pc = "read"
  /\ background = None
  /\ current_color_index \in 0..(Len(color_names) - 1)
  /\ is_active = FALSE
  /\ is_initialized = FALSE
  /\ window = FALSE
  /\ is_recording = FALSE
  /\ video_writer = None
  /\ openSinks = 0
  /\ capOpen = TRUE
  /\ recBefore = <<>>
  /\ frame = None
  /\ processed_frame = None
  /\ hsv_range = None
  /\ raw_mask = None
  /\ mask = None
  /\ shown = None
  /\ written = None
  /\ reads = 0
  /\ emits = 0
  /\ lastCmd = "none"
  /\ frames = <<>>
  /\ captureOk = FALSE
  /\ saveOk = FALSE
  /\ recResult = "none"
  /\ seg_hsv = None
  /\ seg_ranges = None
  /\ seg_mask = None
  /\ seg_outcome = "not called"

\* The tuner would read trackbars of a window that was destroyed.
TunerWindowGone == is_active /\ is_initialized /\ ~window

\* A new pass of the while loop starts: no key read, no handler has run.
NewIteration ==
  /\ lastCmd' = "none"
  /\ frames' = <<>>
  /\ captureOk' = FALSE
  /\ saveOk' = FALSE
  /\ recResult' = "none"

\* A handler returned to the top of the loop: the locals of the iteration
\* are dead until line 448 assigns them again.
EndIteration ==
  /\ pc' = "read"
  /\ frame' = None
  /\ processed_frame' = None
  /\ hsv_range' = None
  /\ raw_mask' = None
  /\ mask' = None
  /\ shown' = None
  /\ written' = None

\* run() leaves the loop for its finally clause.
LeaveLoop ==
  /\ pc' = "finally"
  /\ UNCHANGED tickVars

\* ------------------------------------------------------------ run(): a tick
\* lines 448-451: self.cap.read() fails, the loop breaks.
ReadFails ==
  /\ pc = "read"
  /\ reads' = 0
  /\ emits' = 0
  /\ NewIteration
  /\ LeaveLoop
  /\ UNCHANGED <<background, current_color_index, tunerVars, recVars, capOpen>>
  /\ UNCHANGED segVars

\* write_frame handing every shown frame to the writer, recording or not.
write_frame_unconditional(recording, writer, img) == img

\* lines 469-470: what run() gives to self.video_writer.write after showing
\* img, None when it writes nothing.
write_frame(recording, writer, img) ==
  IF recording /\ writer # None THEN img ELSE None

\* lines 448-470: read frame f, mirror it, apply the effect, show, record.
\* tb is what cv2.getTrackbarPos reports if create_color_mask asks.
ProcessFrame(f, tb) ==
  /\ pc = "read"
  /\ LET frm == flip(f)
         rng == get_hsv_range(is_active, is_initialized, tb)
         eff == apply_invisibility_effect(frm, background, is_active, rng,
                                          current_color_index)
     IN /\ frame' = frm
        /\ processed_frame' = eff.result
        /\ hsv_range' = IF background # None /\ is_active THEN rng ELSE None
        /\ raw_mask' = eff.raw
        /\ mask' = eff.refined
        /\ shown' = eff.result
        /\ written' = write_frame(is_recording, video_writer, eff.result)
  /\ reads' = 1
  /\ emits' = 1
  /\ pc' = "key"
  /\ NewIteration
  /\ UNCHANGED <<background, current_color_index, tunerVars, recVars, capOpen>>
  /\ UNCHANGED segVars

\* A tick whose trackbars are read from a live window, or not read at all.
Tick ==
  /\ ~(background # None /\ TunerWindowGone)
  /\ \E f \in CameraFrames :
       \E tb \in (IF background # None /\ is_active
                  THEN TrackbarSettings ELSE {TrackbarMissing}) :
         ProcessFrame(f, tb)

\* A tick whose cv2.getTrackbarPos calls name a destroyed window and return -1.
TickWindowGone ==
  /\ background # None /\ TunerWindowGone
  /\ \E f \in CameraFrames : ProcessFrame(f, TrackbarMissing)

\* The same tick where cv2.getTrackbarPos raises cv2.error: run() catches it
\* at line 493, before anything is shown.
TickRaises ==
  /\ pc = "read"
  /\ background # None /\ TunerWindowGone
  /\ \E f \in CameraFrames : frame' = flip(f)
  /\ reads' = 1
  /\ emits' = 0
  /\ pc' = "finally"
  /\ NewIteration
  /\ UNCHANGED <<background, current_color_index, tunerVars, recVars, capOpen,
                 processed_frame, hsv_range, raw_mask, mask, shown, written>>
  /\ UNCHANGED segVars

\* --------------------------------------------------- run(): the key handlers
\* Every handler runs after cv2.waitKey at line 473 returned its key.
\* lines 475-476: q, Q or ESC breaks the loop.
Quit ==
  /\ pc = "key"
  /\ lastCmd' = "q"
  /\ LeaveLoop
  /\ UNCHANGED <<background, current_color_index, tunerVars, recVars, capOpen,
                 reads, emits, frames, captureOk, saveOk, recResult>>
  /\ UNCHANGED segVars

\* No key, or a key no branch handles.
NoKey ==
  /\ pc = "key"
  /\ lastCmd' = "other"
  /\ EndIteration
  /\ UNCHANGED <<background, current_color_index, tunerVars, recVars, capOpen,
                 reads, emits, frames, captureOk, saveOk, recResult>>
  /\ UNCHANGED segVars

\* lines 263-321, key b: nCount of the countdown reads succeed (each frame is
\* shown and dropped), then the sample reads rds (a frame or NoFrame each).
capture_background(nCount, rds) ==
  /\ pc = "key"
  /\ LET smp == Collected(rds)
     IN /\ frames' = smp
        /\ background' = capture_plate(background, smp)
        /\ captureOk' = (smp # <<>>)
        /\ reads' = reads + nCount + Len(smp)
        /\ emits' = emits + nCount + Len(smp)
  /\ lastCmd' = "b"
  /\ EndIteration
  /\ UNCHANGED <<current_color_index, tunerVars, recVars, capOpen, saveOk, recResult>>
  /\ UNCHANGED segVars

CaptureBackground ==
  \E nCount \in 0..CountdownFrames :
    \E rds \in [1..NumFrames -> CameraFrames \cup {NoFrame}] :
      capture_background(nCount, rds)

\* line 488, key SPACE.
ResetBackground ==
  /\ pc = "key"
  /\ background' = None
  /\ lastCmd' = "space"
  /\ EndIteration
  /\ UNCHANGED <<current_color_index, tunerVars, recVars, capOpen, reads, emits,
                 frames, captureOk, saveOk, recResult>>
  /\ UNCHANGED segVars

\* next_color_index that stops at the last preset instead of wrapping.
next_color_index_stuck_at_last(i) ==
  IF i + 1 < Len(color_names) THEN i + 1 ELSE i

\* line 325: the index cycle_color moves to.
next_color_index(i) == (i + 1) % Len(color_names)

\* lines 323-327, key c.
cycle_color ==
  /\ pc = "key"
  /\ current_color_index' = next_color_index(current_color_index)
  /\ lastCmd' = "c"
  /\ EndIteration
  /\ UNCHANGED <<background, tunerVars, recVars, capOpen, reads, emits,
                 frames, captureOk, saveOk, recResult>>
  /\ UNCHANGED segVars

\* lines 108-131, key t: HSVTuner.toggle with _create_window.
toggle ==
  /\ pc = "key"
  /\ is_active' = ~is_active
  /\ IF ~is_active /\ ~is_initialized
     THEN /\ window' = TRUE
          /\ is_initialized' = TRUE
     ELSE IF is_active /\ is_initialized
     THEN /\ window' = FALSE
          /\ UNCHANGED is_initialized
     ELSE UNCHANGED <<window, is_initialized>>
  /\ lastCmd' = "t"
  /\ EndIteration
  /\ UNCHANGED <<background, current_color_index, recVars, capOpen, reads, emits,
                 frames, captureOk, saveOk, recResult>>
  /\ UNCHANGED segVars

\* Key t while the window is already gone, on the builds where
\* cv2.destroyWindow raises cv2.error for a window that does not exist.
toggle_raises ==
  /\ pc = "key"
  /\ TunerWindowGone
  /\ is_active' = FALSE
  /\ lastCmd' = "t"
  /\ LeaveLoop
  /\ UNCHANGED <<background, current_color_index, is_initialized, window, recVars,
                 capOpen, reads, emits, frames, captureOk, saveOk, recResult>>
  /\ UNCHANGED segVars

\* lines 149-171, key s: False without a range, else the range is written to
\* custom_hsv.json; ioOk is whether open and json.dump succeed.
save_settings(tb, ioOk) ==
  /\ pc = "key"
  /\ LET rng == get_hsv_range(is_active, is_initialized, tb)
     IN saveOk' = (rng # None /\ ioOk)
  /\ lastCmd' = "s"
  /\ EndIteration
  /\ UNCHANGED <<background, current_color_index, tunerVars, recVars, capOpen,
                 reads, emits, frames, captureOk, recResult>>
  /\ UNCHANGED segVars

SaveSettings ==
  \E ioOk \in BOOLEAN :
    \E tb \in (IF window THEN TrackbarSettings ELSE {TrackbarMissing}) :
      save_settings(tb, ioOk)

\* Key s where cv2.getTrackbarPos raises for the destroyed window.
save_settings_raises ==
  /\ pc = "key"
  /\ TunerWindowGone
  /\ lastCmd' = "s"
  /\ LeaveLoop
  /\ UNCHANGED <<background, current_color_index, tunerVars, recVars, capOpen,
                 reads, emits, frames, captureOk, saveOk, recResult>>
  /\ UNCHANGED segVars

\* toggle_recording whose stop branch releases the writer and leaves the
\* flag set (line 355 lost).
toggle_recording_flag_stuck(readOk, openOk) ==
  /\ pc = "key"
  /\ IF ~is_recording
     THEN IF ~readOk
          THEN /\ recResult' = "NoFrame"
               /\ UNCHANGED <<is_recording, video_writer, openSinks, reads>>
          ELSE /\ reads' = reads + 1
               /\ IF openOk
                  THEN /\ video_writer' = Opened
                       /\ openSinks' = openSinks + 1
                       /\ is_recording' = TRUE
                       /\ recResult' = "Started"
                  ELSE /\ video_writer' = None
                       /\ recResult' = "OpenFailed"
                       /\ UNCHANGED <<is_recording, openSinks>>
     ELSE /\ UNCHANGED is_recording
          /\ IF video_writer # None
             THEN /\ openSinks' = IF video_writer = Opened
                                  THEN openSinks - 1 ELSE openSinks
                  /\ video_writer' = None
             ELSE UNCHANGED <<video_writer, openSinks>>
          /\ recResult' = "Stopped"
          /\ UNCHANGED reads
  /\ recBefore' = IF recBefore = <<>> THEN <<is_recording>>
                  ELSE <<recBefore[Len(recBefore)], is_recording>>
  /\ lastCmd' = "r"
  /\ EndIteration
  /\ UNCHANGED <<background, current_color_index, tunerVars, capOpen, emits,
                 frames, captureOk, saveOk>>
  /\ UNCHANGED segVars

\* toggle_recording that keeps the writer that failed to open (line 352 lost).
toggle_recording_keeps_writer(readOk, openOk) ==
  /\ pc = "key"
  /\ IF ~is_recording
     THEN IF ~readOk
          THEN /\ recResult' = "NoFrame"
               /\ UNCHANGED <<is_recording, video_writer, openSinks, reads>>
          ELSE /\ reads' = reads + 1
               /\ IF openOk
                  THEN /\ video_writer' = Opened
                       /\ openSinks' = openSinks + 1
                       /\ is_recording' = TRUE
                       /\ recResult' = "Started"
                  ELSE /\ video_writer' = Released
                       /\ recResult' = "OpenFailed"
                       /\ UNCHANGED <<is_recording, openSinks>>
     ELSE /\ is_recording' = FALSE
          /\ IF video_writer # None
             THEN /\ openSinks' = IF video_writer = Opened
                                  THEN openSinks - 1 ELSE openSinks
                  /\ video_writer' = None
             ELSE UNCHANGED <<video_writer, openSinks>>
          /\ recResult' = "Stopped"
          /\ UNCHANGED reads
  /\ recBefore' = IF recBefore = <<>> THEN <<is_recording>>
                  ELSE <<recBefore[Len(recBefore)], is_recording>>
  /\ lastCmd' = "r"
  /\ EndIteration
  /\ UNCHANGED <<background, current_color_index, tunerVars, capOpen, emits,
                 frames, captureOk, saveOk>>
  /\ UNCHANGED segVars

\* lines 329-359, key r: readOk is whether self.cap.read() at line 337 yields
\* a frame, openOk whether the new cv2.VideoWriter isOpened().
toggle_recording(readOk, openOk) ==
  /\ pc = "key"
  /\ IF ~is_recording
     THEN IF ~readOk
          THEN /\ recResult' = "NoFrame"
               /\ UNCHANGED <<is_recording, video_writer, openSinks, reads>>
          ELSE /\ reads' = reads + 1
               /\ IF openOk
                  THEN /\ video_writer' = Opened
                       /\ openSinks' = openSinks + 1
                       /\ is_recording' = TRUE
                       /\ recResult' = "Started"
                  ELSE /\ video_writer' = None
                       /\ recResult' = "OpenFailed"
                       /\ UNCHANGED <<is_recording, openSinks>>
     ELSE /\ is_recording' = FALSE
          /\ IF video_writer # None
             THEN /\ openSinks' = IF video_writer = Opened
                                  THEN openSinks - 1 ELSE openSinks
                  /\ video_writer' = None
             ELSE UNCHANGED <<video_writer, openSinks>>
          /\ recResult' = "Stopped"
          /\ UNCHANGED reads
  /\ recBefore' = IF recBefore = <<>> THEN <<is_recording>>
                  ELSE <<recBefore[Len(recBefore)], is_recording>>
  /\ lastCmd' = "r"
  /\ EndIteration
  /\ UNCHANGED <<background, current_color_index, tunerVars, capOpen, emits,
                 frames, captureOk, saveOk>>
  /\ UNCHANGED segVars

ToggleRecording ==
  \E readOk \in BOOLEAN :
    \E openOk \in (IF ~is_recording /\ readOk THEN BOOLEAN ELSE {TRUE}) :
      toggle_recording(readOk, openOk)

\* Key r with a KeyboardInterrupt inside toggle_recording: after line 345 has
\* opened the writer and before line 348 sets the flag.
toggle_recording_interrupted_start ==
  /\ pc = "key"
  /\ ~is_recording
  /\ reads' = reads + 1
  /\ video_writer' = Opened
  /\ openSinks' = openSinks + 1
  /\ lastCmd' = "r"
  /\ LeaveLoop
  /\ UNCHANGED <<background, current_color_index, tunerVars, is_recording,
                 recBefore, capOpen, emits, frames, captureOk, saveOk, recResult>>
  /\ UNCHANGED segVars

\* Key r with a KeyboardInterrupt after line 355 has cleared the flag and
\* before line 357 releases the writer.
toggle_recording_interrupted_stop ==
  /\ pc = "key"
  /\ is_recording
  /\ is_recording' = FALSE
  /\ lastCmd' = "r"
  /\ LeaveLoop
  /\ UNCHANGED <<background, current_color_index, tunerVars, video_writer,
                 openSinks, recBefore, capOpen, reads, emits, frames, captureOk,
                 saveOk, recResult>>
  /\ UNCHANGED segVars

\* A KeyboardInterrupt between two statements of the loop body, or inside
\* cv2.waitKey: the except clause at line 491.
Interrupt ==
  /\ pc \in {"read", "key"}
  /\ LeaveLoop
  /\ UNCHANGED <<background, current_color_index, tunerVars, recVars, capOpen,
                 reads, emits, cmdVars>>
  /\ UNCHANGED segVars

\* lines 495-509: the finally clause of run() calls cleanup().
cleanup ==
  /\ pc = "finally"
  /\ IF is_recording /\ video_writer # None
     THEN /\ video_writer' = Released
          /\ openSinks' = IF video_writer = Opened
                          THEN openSinks - 1 ELSE openSinks
     ELSE UNCHANGED <<video_writer, openSinks>>
  /\ capOpen' = FALSE
  /\ window' = FALSE
  /\ pc' = "returned"
  /\ UNCHANGED <<background, current_color_index, is_active, is_initialized,
                 is_recording, recBefore, tickVars, reads, emits, cmdVars>>
  /\ UNCHANGED segVars

Next ==
  \/ ReadFails
  \/ Tick
  \/ TickWindowGone
  \/ TickRaises
  \/ Quit
  \/ NoKey
  \/ CaptureBackground
  \/ ResetBackground
  \/ cycle_color
  \/ toggle
  \/ toggle_raises
  \/ SaveSettings
  \/ save_settings_raises
  \/ ToggleRecording
  \/ toggle_recording_interrupted_start
  \/ toggle_recording_interrupted_stop
  \/ Interrupt
  \/ cleanup

Spec == Init /\ [][Next]_vars

\* ------------------------------------- create_color_mask's preset branch alone
\* Lines 234-245 called on an HSV frame and a list of ranges of any length,
\* the empty list included.
MaxRanges == 2

\* The (lower, upper) boxes of all presets.
PresetBoxes ==
  UNION {{COLOR_PRESETS[i].ranges[j] : j \in 1..Len(COLOR_PRESETS[i].ranges)} :
           i \in 1..Len(COLOR_PRESETS)}

RangeLists == UNION {[1..n -> PresetBoxes] : n \in 0..MaxRanges}

HsvFrames == {cvtColor(f) : f \in CameraFrames \cup {flip(g) : g \in CameraFrames}}

SegInit ==
  /\ pc = "returned"
  /\ background = None
  /\ current_color_index = 0
  /\ is_active = FALSE
  /\ is_initialized = FALSE
  /\ window = FALSE
  /\ is_recording = FALSE
  /\ video_writer = None
  /\ openSinks = 0
  /\ capOpen = FALSE
  /\ recBefore = <<>>
  /\ frame = None
  /\ processed_frame = None
  /\ hsv_range = None
  /\ raw_mask = None
  /\ mask = None
  /\ shown = None
  /\ written = None
  /\ reads = 0
  /\ emits = 0
  /\ lastCmd = "none"
  /\ frames = <<>>
  /\ captureOk = FALSE
  /\ saveOk = FALSE
  /\ recResult = "none"
  /\ seg_hsv \in HsvFrames
  /\ seg_ranges \in RangeLists
  /\ seg_mask = None
  /\ seg_outcome = "not called"

\* The call, with the outcome res of lines 234-245.
SegCall(res) ==
  /\ seg_outcome = "not called"
  /\ seg_outcome' = res.outcome
  /\ seg_mask' = res.final_mask
  /\ UNCHANGED <<pc, background, current_color_index, tunerVars, recVars,
                 capOpen, tickVars, reads, emits, cmdVars, seg_hsv, seg_ranges>>

\* line 245 is reached and final_mask is returned.
SegReturns ==
  /\ mask_of_ranges(seg_hsv, seg_ranges).outcome = "returned"
  /\ SegCall(mask_of_ranges(seg_hsv, seg_ranges))

\* line 241 raises IndexError.
SegRaises ==
  /\ mask_of_ranges(seg_hsv, seg_ranges).outcome = "IndexError"
  /\ SegCall(mask_of_ranges(seg_hsv, seg_ranges))

SegNext == SegReturns \/ SegRaises

SegmentSpec == SegInit /\ [][SegNext]_vars

\* ==================================================================== claims
\* C1: on every tick where the background plate is absent, what
\* apply_invisibility_effect returns is the input frame itself and no mask is
\* computed, whatever the preset index, the tuner flag and the recording flag.
C1_IdentityWithoutPlate ==
  (pc = "key" /\ background = None) =>
     /\ processed_frame = frame
     /\ mask = None

\* C1 happens: a tick without a plate, the tuner on, recording on, a preset
\* other than the first, and a frame the presets would mask.
C1_Witness ==
  /\ pc = "key"
  /\ background = None
  /\ processed_frame = flip(CloakScene)
  /\ is_active
  /\ is_recording
  /\ current_color_index # 0

\* C2: with a plate present, every output pixel is the plate's pixel where the
\* refined mask marks membership and the frame's pixel where it does not.
C2_PerPixelSelect ==
  (pc = "key" /\ background # None) =>
     \A p \in Pos :
        processed_frame[p] = IF mask[p] # 0 THEN background[p] ELSE frame[p]

\* C2 happens: a tick whose mask has members and non-members, the plate
\* differing from the frame at one of each.
C2_Witness ==
  /\ pc = "key"
  /\ background # None
  /\ \E p \in Pos : mask[p] # 0 /\ background[p] # frame[p]
  /\ \E p \in Pos : mask[p] = 0 /\ background[p] # frame[p]

\* C3: a capture_background whose sample phase reads no frame returns False
\* and leaves self.background exactly as it was, absent or present.
C3_FailedCaptureKeepsPlate ==
  [][(pc = "key" /\ lastCmd' = "b" /\ frames' = <<>>) =>
        (captureOk' = FALSE /\ background' = background)]_vars

\* C3 happens: a capture without samples has returned while a plate was held.
C3_Witness ==
  /\ lastCmd = "b"
  /\ frames = <<>>
  /\ ~captureOk
  /\ background # None

\* C4: the plate is absent at start; a successful capture installs the plate
\* computed from that capture's samples alone, replacing any plate held; the
\* reset key removes it; no other step of the session changes it. So the
\* plate is present exactly when a capture has succeeded with no reset since.
C4_PlateLifecycle ==
  /\ background = None
  /\ [][/\ (pc = "key" /\ lastCmd' = "b" /\ captureOk') =>
             (background' # None /\ background' = PlateTable[frames'])
        /\ (pc = "key" /\ lastCmd' = "space") => background' = None
        /\ ~(pc = "key" /\ lastCmd' \in {"b", "space"}) =>
             background' = background
        /\ (pc = "key" /\ lastCmd' = "b" /\ ~captureOk') =>
             background' = background]_vars

\* C4 happens: a capture has succeeded on a single sample (the other read
\* failed) and its plate is installed.
C4_Witness ==
  /\ lastCmd = "b"
  /\ captureOk
  /\ Len(frames) = 1
  /\ background = PlateTable[frames]

\* C5: while the session runs, whenever the tuner is active its window with
\* the trackbars exists.
C5_TunerWindowExists ==
  (pc \in {"read", "key"} /\ is_active) => window

\* C6, as stated: from Recording = false, two toggle_recording calls in a row
\* leave Recording = false, whatever the frame read and the sink open did.
C6_TwiceReturnsToFalse ==
  (Len(recBefore) = 2 /\ recBefore[1] = FALSE) => ~is_recording

\* C6, amended: from Recording = false, when the first toggle_recording starts
\* the recording (so the second one finds Recording = true), the second call
\* leaves Recording = false.
C6_StartThenStop ==
  (Len(recBefore) = 2 /\ recBefore[1] = FALSE /\ recBefore[2] = TRUE) =>
     ~is_recording

\* C6 happens: a start that succeeded, then a stop, just handled.
C6_Witness ==
  /\ recBefore = <<FALSE, TRUE>>
  /\ lastCmd = "r"
  /\ recResult = "Stopped"
  /\ ~is_recording

C8_AllReleasedOnReturn ==
  pc = "returned" => (openSinks = 0 /\ ~capOpen)

\* C9: an iteration whose key is not the capture key has read exactly one
\* frame from the camera and shown exactly one.
C9_OneFramePerIteration ==
  (pc = "read" /\ lastCmd \notin {"none", "b"}) => (reads = 1 /\ emits = 1)

\* Membership by claim C10's words: 255 where the pixel lies in any of the
\* ranges, 0 elsewhere.
InAnyRange(hsv, ranges) ==
  [p \in Pos |->
     IF \E i \in 1..Len(ranges) :
          \A c \in 1..3 :
             ranges[i][1][c] <= hsv[p][c] /\ hsv[p][c] <= ranges[i][2][c]
     THEN 255 ELSE 0]

C11_ShownFrameRecorded ==
  /\ [](pc = "key" =>
          /\ is_recording => (written # None /\ written = shown)
          /\ ~is_recording => written = None)
  /\ [][(written' # written /\ written' # None) =>
          (pc = "read" /\ pc' = "key" /\ is_recording /\ written' = shown')]_vars

\* C11 happens: a tick with a plate and Recording true has shown a composite
\* that differs from the camera frame and has written it.
C11_Witness ==
  /\ pc = "key"
  /\ is_recording
  /\ background # None
  /\ shown # frame
  /\ written = shown

\* The index after k presses of the c key, starting from i.
RECURSIVE CycleTimes(_, _)
CycleTimes(i, k) == IF k = 0 THEN i ELSE CycleTimes(next_color_index(i), k - 1)

\* C12: the c key moves the preset index to (index + 1) modulo the number of
\* presets and leaves the tuner flag, the recording flag and the plate alone;
\* no other step changes the index, which is therefore always a position of
\* the preset list; and as many presses as there are presets bring every
\* index back to itself.
C12_CyclePreset ==
  /\ [](current_color_index \in 0..(Len(COLOR_PRESETS) - 1))
  /\ [][IF pc = "key" /\ lastCmd' = "c"
        THEN /\ current_color_index' =
                  (current_color_index + 1) % Len(COLOR_PRESETS)
             /\ is_active' = is_active
             /\ is_recording' = is_recording
             /\ background' = background
        ELSE current_color_index' = current_color_index]_vars
  /\ [](\A i \in 0..(Len(COLOR_PRESETS) - 1) :
          CycleTimes(i, Len(COLOR_PRESETS)) = i)

\* C12 happens: the c key has just wrapped the index from the last preset to
\* the first, with the tuner active, Recording true and a plate held.
C12_Witness ==
  /\ pc = "read"
  /\ lastCmd = "c"
  /\ current_color_index = 0
  /\ is_active
  /\ is_recording
  /\ background # None

C13_NonEmptyRangesOr ==
  (seg_outcome # "not called" /\ seg_ranges # <<>>) =>
     /\ seg_outcome = "returned"
     /\ seg_mask = InAnyRange(seg_hsv, seg_ranges)

====
